---- MODULE Spec2Model ----
(***************************************************************************)
(* Wikipedia Country Outline API (main.py).                                *)
(*                                                                         *)
(* One request to GET /api/outline?country=<c> is a run of                 *)
(* get_country_outline: fetch_wikipedia_page, extract_headings,            *)
(* generate_markdown_outline, then the return of the outline, or one of    *)
(* the two except clauses.  Python strings are sequences of one-character  *)
(* strings; an HTML document is the sequence of its tags in document       *)
(* order, each with its name and the text get_text() gives for it.         *)
(***************************************************************************)
EXTENDS Integers, Sequences, FiniteSets, TLC

VARIABLES
    country,         \* the query parameter, as the handler received it
    url,             \* the URL fetch_wikipedia_page requested
    status_code,     \* response.status_code of the upstream response (0: none)
    exc,             \* the exception raised inside the try block, if any
    html_content,    \* response.text: the tags of the page, in document order
    headings,        \* the list extract_headings returned
    markdown_lines,  \* the list generate_markdown_outline joined
    outline,         \* the string generate_markdown_outline returned
    responses,       \* the responses the handler has produced
    gets,            \* the number of calls of requests.get
    trace,           \* the stages the handler has called, in order
    pc               \* the handler's position

vars == <<country, url, status_code, exc, html_content, headings, markdown_lines,
          outline, responses, gets, trace, pc>>

----------------------------------------------------------------------------
(* Bounds of the model. *)

MaxCountryLen == 3

MaxTags == 2

----------------------------------------------------------------------------
(* Python str operations. *)

\* The characters str.strip() removes by default (ASCII whitespace).
Whitespace == {" ", "\t", "\n", "\r"}

RECURSIVE LStrip(_)
LStrip(s) ==
    IF s # <<>> /\ Head(s) \in Whitespace THEN LStrip(Tail(s)) ELSE s

RECURSIVE RStrip(_)
RStrip(s) ==
    IF s # <<>> /\ s[Len(s)] \in Whitespace
    THEN RStrip(SubSeq(s, 1, Len(s) - 1))
    ELSE s

\* str.strip()
Strip(s) == RStrip(LStrip(s))

\* s.startswith(p)
StartsWith(s, p) == Len(p) <= Len(s) /\ SubSeq(s, 1, Len(p)) = p

\* sub in s
Contains(s, sub) ==
    \E i \in 1..(Len(s) - Len(sub) + 1) : SubSeq(s, i, i + Len(sub) - 1) = sub

\* s.replace(old, new), old non-empty: leftmost, non-overlapping occurrences
RECURSIVE Replace(_, _, _)
Replace(s, old, new) ==
    IF s = <<>> THEN <<>>
    ELSE IF StartsWith(s, old)
         THEN new \o Replace(SubSeq(s, Len(old) + 1, Len(s)), old, new)
         ELSE <<Head(s)>> \o Replace(Tail(s), old, new)

\* c * n
RECURSIVE Repeat(_, _)
Repeat(c, n) == IF n <= 0 THEN <<>> ELSE <<c>> \o Repeat(c, n - 1)

\* sep.join(lines)
RECURSIVE Join(_, _)
Join(lines, sep) ==
    IF lines = <<>> THEN <<>>
    ELSE IF Len(lines) = 1 THEN lines[1]
    ELSE lines[1] \o sep \o Join(Tail(lines), sep)

DigitChars == <<"0", "1", "2", "3", "4", "5", "6", "7", "8", "9">>

HexChars == <<"0", "1", "2", "3", "4", "5", "6", "7", "8", "9",
              "A", "B", "C", "D", "E", "F">>

\* int(c) for a decimal digit c
DigitValue(c) == CHOOSE d \in 0..9 : DigitChars[d + 1] = c

\* str(n) for a natural number n
RECURSIVE Str(_)
Str(n) ==
    IF n < 10 THEN <<DigitChars[n + 1]>>
    ELSE Str(n \div 10) \o <<DigitChars[(n % 10) + 1]>>

----------------------------------------------------------------------------
(* urllib.parse.quote(s), with its default safe="/". *)

\* Letters, digits and "_.-~" are never quoted; "/" is safe by default.
QuoteSafe ==
    {"a", "b", "c", "d", "e", "f", "g", "h", "i", "j", "k", "l", "m",
     "n", "o", "p", "q", "r", "s", "t", "u", "v", "w", "x", "y", "z",
     "A", "B", "C", "D", "E", "F", "G", "H", "I", "J", "K", "L", "M",
     "N", "O", "P", "Q", "R", "S", "T", "U", "V", "W", "X", "Y", "Z",
     "0", "1", "2", "3", "4", "5", "6", "7", "8", "9",
     "_", ".", "-", "~", "/"}

\* ord(c) of the quoted characters the model's inputs use
Ord(c) ==
    CASE c = "\t" -> 9
      [] c = "\n" -> 10
      [] c = "\r" -> 13
      [] c = " "  -> 32
      [] c = "%"  -> 37
      [] c = "'"  -> 39
      [] c = "?"  -> 63

QuoteChar(c) ==
    IF c \in QuoteSafe THEN <<c>>
    ELSE <<"%", HexChars[(Ord(c) \div 16) + 1], HexChars[(Ord(c) % 16) + 1]>>

RECURSIVE Quote(_)
Quote(s) == IF s = <<>> THEN <<>> ELSE QuoteChar(Head(s)) \o Quote(Tail(s))

----------------------------------------------------------------------------
(* fetch_wikipedia_page: the URL. *)

WikiPrefix ==
    <<"h", "t", "t", "p", "s", ":", "/", "/", "e", "n", ".", "w", "i", "k",
      "i", "p", "e", "d", "i", "a", ".", "o", "r", "g", "/", "w", "i", "k",
      "i", "/">>

\* A slip: the spaces are replaced before the string is stripped.
CountryFormattedReplaceFirst(c) == Strip(Replace(c, <<" ">>, <<"_">>))

\* country_formatted = country.strip().replace(" ", "_")
CountryFormatted(c) == Replace(Strip(c), <<" ">>, <<"_">>)

\* url = f"https://en.wikipedia.org/wiki/{urllib.parse.quote(country_formatted)}"
WikiUrl(c) == WikiPrefix \o Quote(CountryFormatted(c))

----------------------------------------------------------------------------
(* requests.get and response.raise_for_status. *)

\* raise_for_status raises HTTPError exactly for the 4xx and 5xx statuses.
RaisesForStatus(status) == 400 <= status /\ status < 600

ClientError ==
    <<" ", "C", "l", "i", "e", "n", "t", " ", "E", "r", "r", "o", "r", ":", " ">>

ServerError ==
    <<" ", "S", "e", "r", "v", "e", "r", " ", "E", "r", "r", "o", "r", ":", " ">>

ForUrl == <<" ", "f", "o", "r", " ", "u", "r", "l", ":", " ">>

\* str(e) of the HTTPError raise_for_status raises
HTTPErrorMessage(status, reason, u) ==
    Str(status) \o (IF status < 500 THEN ClientError ELSE ServerError)
        \o reason \o ForUrl \o u

----------------------------------------------------------------------------
(* extract_headings. *)

\* soup.find_all(['h1', 'h2', 'h3', 'h4', 'h5', 'h6'])
HeadingTagNames ==
    {<<"h", "1">>, <<"h", "2">>, <<"h", "3">>, <<"h", "4">>, <<"h", "5">>,
     <<"h", "6">>}

EditMarker == <<"[", "e", "d", "i", "t", "]">>

\* level = int(tag.name[1])
Level(tag) == DigitValue(tag.name[2])

\* text = tag.get_text().strip()
TagText(tag) == Strip(tag.text)

\* A slip: the emptiness test is dropped.
KeepsHeadingNoEmptyTest(text) == ~Contains(text, EditMarker)

\* if text and '[edit]' not in text:
KeepsHeading(text) == text # <<>> /\ ~Contains(text, EditMarker)

\* text = text.replace('[edit]', '').strip(); headings.append((level, text))
HeadingOf(tag) == <<Level(tag), Strip(Replace(TagText(tag), EditMarker, <<>>))>>

\* A slip: each heading is inserted at the front of the list.
RECURSIVE extract_headings_prepend(_)
extract_headings_prepend(html) ==
    IF html = <<>> THEN <<>>
    ELSE LET tag == html[1]
             rest == extract_headings_prepend(Tail(html))
         IN  IF tag.name \in HeadingTagNames /\ KeepsHeading(TagText(tag))
             THEN rest \o <<HeadingOf(tag)>>
             ELSE rest

\* The loop of extract_headings over the tags of the page, from the tags seen
\* so far (acc) and the tags still to visit (html).
RECURSIVE ExtractLoop(_, _)
ExtractLoop(acc, html) ==
    IF html = <<>> THEN acc
    ELSE LET tag == html[1]
         IN  IF tag.name \in HeadingTagNames /\ KeepsHeading(TagText(tag))
             THEN ExtractLoop(Append(acc, HeadingOf(tag)), Tail(html))
             ELSE ExtractLoop(acc, Tail(html))

extract_headings(html) == ExtractLoop(<<>>, html)

----------------------------------------------------------------------------
(* generate_markdown_outline. *)

\* A slip: the title is appended without its newline.
ContentsTitleNoNewline ==
    <<"#", "#", " ", "C", "o", "n", "t", "e", "n", "t", "s">>

\* markdown_lines.append("## Contents\n")
ContentsTitle ==
    <<"#", "#", " ", "C", "o", "n", "t", "e", "n", "t", "s", "\n">>

\* f"{markdown_prefix} {text}" with markdown_prefix = "#" * level
HeadingLine(h) == Repeat("#", h[1]) \o <<" ">> \o h[2]

\* for level, text in headings: markdown_lines.append(...)
RECURSIVE HeadingLines(_)
HeadingLines(hs) ==
    IF hs = <<>> THEN <<>>
    ELSE <<HeadingLine(hs[1])>> \o HeadingLines(Tail(hs))

MarkdownLines(hs) == <<ContentsTitle>> \o HeadingLines(hs)

\* A slip: the lines are joined by a single newline.
LineSeparatorSingle == <<"\n">>

\* "\n\n"
LineSeparator == <<"\n", "\n">>

\* return "\n\n".join(markdown_lines)
generate_markdown_outline(c, hs) == Join(MarkdownLines(hs), LineSeparator)

----------------------------------------------------------------------------
(* get_country_outline: the bodies of its except clauses. *)

NotFoundPrefix ==
    <<"E", "r", "r", "o", "r", ":", " ", "W", "i", "k", "i", "p", "e", "d",
      "i", "a", " ", "p", "a", "g", "e", " ", "n", "o", "t", " ", "f", "o",
      "u", "n", "d", " ", "f", "o", "r", " ", "'">>

FetchErrorPrefix ==
    <<"E", "r", "r", "o", "r", " ", "f", "e", "t", "c", "h", "i", "n", "g",
      " ", "W", "i", "k", "i", "p", "e", "d", "i", "a", " ", "p", "a", "g",
      "e", ":", " ">>

ErrorPrefix == <<"E", "r", "r", "o", "r", ":", " ">>

\* A slip: the message names the formatted country.
NotFoundBodyFormatted(c) == NotFoundPrefix \o CountryFormatted(c) \o <<"'">>

\* f"Error: Wikipedia page not found for '{country}'"
NotFoundBody(c) == NotFoundPrefix \o c \o <<"'">>

\* f"Error fetching Wikipedia page: {str(e)}"
FetchErrorBody(msg) == FetchErrorPrefix \o msg

\* f"Error: {str(e)}"
ErrorBody(msg) == ErrorPrefix \o msg

\* A slip: every HTTPError is reported as a missing page.
HTTPErrorBodyAlwaysNotFound(status, c, msg) == NotFoundBody(c)

\* if e.response.status_code == 404: ... else: ...
HTTPErrorBody(status, c, msg) ==
    IF status = 404 THEN NotFoundBody(c) ELSE FetchErrorBody(msg)

\* A returned str becomes a PlainTextResponse with the default status code.
PlainTextResponse(body) == [status |-> 200, body |-> body]

----------------------------------------------------------------------------
(* The inputs of the model. *)

SeqsUpTo(S, n) == UNION {[1..k -> S] : k \in 0..n}

CountryChars == {"A", " ", "\t", "?"}

UnitedStates ==
    <<"U", "n", "i", "t", "e", "d", " ", "S", "t", "a", "t", "e", "s">>

UnitedStatesPadded == <<" ", " ">> \o UnitedStates \o <<" ", " ">>

Atlantis == <<"A", "t", "l", "a", "n", "t", "i", "s">>

Vanuatu == <<"V", "a", "n", "u", "a", "t", "u">>

Countries ==
    SeqsUpTo(CountryChars, MaxCountryLen)
        \cup {UnitedStates, UnitedStatesPadded, Atlantis, Vanuatu}

\* The status codes the upstream server answers with.
Statuses == {200, 304, 403, 404, 500}

\* response.reason
Reason(s) ==
    CASE s = 403 -> <<"F", "o", "r", "b", "i", "d", "d", "e", "n">>
      [] s = 404 -> <<"N", "o", "t", " ", "F", "o", "u", "n", "d">>
      [] s = 500 -> <<"S", "e", "r", "v", "e", "r", " ", "E", "r", "r", "o", "r">>
      [] OTHER   -> <<>>

\* str(e) of a connection failure inside requests.get
TransportMessages ==
    {<<"C", "o", "n", "n", "e", "c", "t", "i", "o", "n", " ", "r", "e", "f",
       "u", "s", "e", "d">>}

\* str(e) of a failure inside the parser
ParserMessages ==
    {<<"r", "e", "c", "u", "r", "s", "i", "o", "n", " ", "d", "e", "p", "t",
       "h">>}

TagTexts ==
    {<<>>, <<" ">>, <<"A">>, <<" ", "B", "\n">>,
     <<"A", "[", "e", "d", "i", "t", "]">>, <<"[", "e", "d", "i", "t", "]">>}

\* The tags of a page: the six heading tags and a tag that is no heading.
DocTagNames == HeadingTagNames \cup {<<"p">>}

Tags == [name : DocTagNames, text : TagTexts]

Docs == SeqsUpTo(Tags, MaxTags)

Tag(n, t) == [name |-> n, text |-> t]

\* The pages the handler is run on.
SampleDocs ==
    {<<>>,
     <<Tag(<<"h", "1">>, <<"A">>), Tag(<<"p">>, <<"A">>),
       Tag(<<"h", "3">>, <<" ", "B", "\n">>)>>,
     <<Tag(<<"h", "2">>, <<"A", "[", "e", "d", "i", "t", "]">>),
       Tag(<<"h", "2">>, <<" ">>)>>}

NoException == [type |-> "none", status |-> 0, msg |-> <<>>]

----------------------------------------------------------------------------
(* get_country_outline, one request. *)

Init ==
    /\ country \in Countries
    /\ url = <<>>
    /\ status_code = 0
    /\ exc = NoException
    /\ html_content = <<>>
    /\ headings = <<>>
    /\ markdown_lines = <<>>
    /\ outline = <<>>
    /\ responses = <<>>
    /\ gets = 0
    /\ trace = <<>>
    /\ pc = "start"

\* html_content = fetch_wikipedia_page(country)
FetchWikipediaPage ==
    /\ pc = "start"
    /\ url' = WikiUrl(country)
    /\ gets' = gets + 1
    /\ trace' = Append(trace, "fetch")
    /\ \/ \E msg \in TransportMessages :
             \* requests.get raises: no response arrived
             /\ status_code' = 0
             /\ exc' = [type |-> "ConnectionError", status |-> 0, msg |-> msg]
             /\ html_content' = html_content
             /\ pc' = "except"
       \/ \E s \in Statuses :
             /\ status_code' = s
             /\ IF RaisesForStatus(s)
                THEN /\ exc' = [type |-> "HTTPError", status |-> s,
                                msg |-> HTTPErrorMessage(s, Reason(s), url')]
                     /\ html_content' = html_content
                     /\ pc' = "except"
                ELSE /\ exc' = exc
                     /\ \E html \in SampleDocs : html_content' = html
                     /\ pc' = "fetched"
    /\ UNCHANGED <<country, headings, markdown_lines, outline, responses>>

\* headings = extract_headings(html_content)
ExtractHeadings ==
    /\ pc = "fetched"
    /\ headings' = extract_headings(html_content)
    /\ trace' = Append(trace, "extract")
    /\ pc' = "extracted"
    /\ UNCHANGED <<country, url, status_code, exc, html_content, markdown_lines,
                   outline, responses, gets>>

\* extract_headings raises inside the parser
ExtractHeadingsRaises ==
    /\ pc = "fetched"
    /\ \E msg \in ParserMessages :
          exc' = [type |-> "RecursionError", status |-> 0, msg |-> msg]
    /\ trace' = Append(trace, "extract")
    /\ pc' = "except"
    /\ UNCHANGED <<country, url, status_code, html_content, headings,
                   markdown_lines, outline, responses, gets>>

\* outline = generate_markdown_outline(country, headings)
GenerateMarkdownOutline ==
    /\ pc = "extracted"
    /\ markdown_lines' = MarkdownLines(headings)
    /\ outline' = generate_markdown_outline(country, headings)
    /\ trace' = Append(trace, "render")
    /\ pc' = "rendered"
    /\ UNCHANGED <<country, url, status_code, exc, html_content, headings,
                   responses, gets>>

\* return outline
ReturnOutline ==
    /\ pc = "rendered"
    /\ responses' = Append(responses, PlainTextResponse(outline))
    /\ pc' = "done"
    /\ UNCHANGED <<country, url, status_code, exc, html_content, headings,
                   markdown_lines, outline, gets, trace>>

\* A slip: the handler fetches again after an HTTPError.
ExceptHTTPErrorRetries ==
    /\ pc = "except"
    /\ exc.type = "HTTPError"
    /\ exc' = NoException
    /\ pc' = "start"
    /\ UNCHANGED <<country, url, status_code, html_content, headings,
                   markdown_lines, outline, responses, gets, trace>>

\* except requests.exceptions.HTTPError as e:
ExceptHTTPError ==
    /\ pc = "except"
    /\ exc.type = "HTTPError"
    /\ responses' = Append(responses,
           PlainTextResponse(HTTPErrorBody(exc.status, country, exc.msg)))
    /\ pc' = "done"
    /\ UNCHANGED <<country, url, status_code, exc, html_content, headings,
                   markdown_lines, outline, gets, trace>>

\* A slip: the clause lets the exception out, and the framework answers 500.
ExceptExceptionPropagates ==
    /\ pc = "except"
    /\ exc.type # "HTTPError"
    /\ responses' = Append(responses, [status |-> 500, body |-> <<>>])
    /\ pc' = "raised"
    /\ UNCHANGED <<country, url, status_code, exc, html_content, headings,
                   markdown_lines, outline, gets, trace>>

\* except Exception as e:
ExceptException ==
    /\ pc = "except"
    /\ exc.type # "HTTPError"
    /\ responses' = Append(responses, PlainTextResponse(ErrorBody(exc.msg)))
    /\ pc' = "done"
    /\ UNCHANGED <<country, url, status_code, exc, html_content, headings,
                   markdown_lines, outline, gets, trace>>

Next ==
    \/ FetchWikipediaPage
    \/ ExtractHeadings
    \/ ExtractHeadingsRaises
    \/ GenerateMarkdownOutline
    \/ ReturnOutline
    \/ ExceptHTTPError
    \/ ExceptException

Spec == Init /\ [][Next]_vars

----------------------------------------------------------------------------
(* extract_headings and generate_markdown_outline on every page of the     *)
(* bounded set: the handler after a fetch that succeeded.                  *)

InitOutline ==
    /\ country = Vanuatu
    /\ url = WikiUrl(Vanuatu)
    /\ status_code = 200
    /\ exc = NoException
    /\ html_content \in Docs
    /\ headings = <<>>
    /\ markdown_lines = <<>>
    /\ outline = <<>>
    /\ responses = <<>>
    /\ gets = 1
    /\ trace = <<"fetch">>
    /\ pc = "fetched"

NextOutline ==
    \/ ExtractHeadings
    \/ GenerateMarkdownOutline
    \/ ReturnOutline

SpecOutline == InitOutline /\ [][NextOutline]_vars

----------------------------------------------------------------------------
(* Properties of extract_headings and generate_markdown_outline, checked   *)
(* under SpecOutline.                                                      *)

\* The header line of the outline, without any newline.
ContentsLine == <<"#", "#", " ", "C", "o", "n", "t", "e", "n", "t", "s">>

\* C1: every heading tag whose trimmed text contains "[edit]" together with
\* other non-whitespace text is kept, as (level, text with "[edit]" removed
\* and the remainder trimmed).
C1_EditHeadingsKept ==
    pc = "extracted" =>
        \A i \in DOMAIN html_content :
            LET tag == html_content[i]
                cleaned == Strip(Replace(Strip(tag.text), EditMarker, <<>>))
            IN  (/\ tag.name \in HeadingTagNames
                 /\ Contains(Strip(tag.text), EditMarker)
                 /\ cleaned # <<>>)
                    => \E k \in DOMAIN headings :
                          headings[k] = <<DigitValue(tag.name[2]), cleaned>>

\* C2 as stated: for a non-empty heading sequence the outline is the line
\* "## Contents" and one line per heading, with exactly two newlines between
\* every two consecutive lines, the header and the first heading included.
C2_TwoNewlinesEverywhere ==
    (pc = "rendered" /\ headings # <<>>) =>
        outline =
            Join(<<ContentsLine>> \o
                     [k \in 1..Len(headings) |->
                         Repeat("#", headings[k][1]) \o <<" ">> \o headings[k][2]],
                 <<"\n", "\n">>)

\* C2 amended: for a non-empty heading sequence the outline is the line
\* "## Contents", then three newlines, then one line per heading with exactly
\* two newlines between every two consecutive heading lines.
C2_OutlineLayout ==
    (pc = "rendered" /\ headings # <<>>) =>
        /\ outline =
               ContentsLine \o <<"\n", "\n", "\n">> \o
               Join([k \in 1..Len(headings) |->
                        Repeat("#", headings[k][1]) \o <<" ">> \o headings[k][2]],
                    <<"\n", "\n">>)
        /\ headings = <<<<1, <<"A">>>>, <<3, <<"B">>>>>>
               => outline = <<"#", "#", " ", "C", "o", "n", "t", "e", "n", "t",
                              "s", "\n", "\n", "\n", "#", " ", "A", "\n", "\n",
                              "#", "#", "#", " ", "B">>

\* C2 witness: an outline of two headings has been rendered.
C2_Witness == pc = "rendered" /\ Len(headings) = 2

\* C3 as stated: for the empty heading sequence the outline is exactly
\* "## Contents", with no trailing newline.
C3_EmptyIsBareHeader ==
    (pc = "rendered" /\ headings = <<>>) => outline = ContentsLine

\* C3 amended: for the empty heading sequence the outline is exactly
\* "## Contents" followed by one newline.
C3_EmptyIsHeaderAndNewline ==
    (pc = "rendered" /\ headings = <<>>) =>
        /\ outline = ContentsLine \o <<"\n">>
        /\ Len(outline) = Len(ContentsLine) + 1

\* C3 witness: the outline of a page none of whose tags gives a heading.
C3_Witness ==
    pc = "rendered" /\ headings = <<>> /\ Len(html_content) = MaxTags

\* C7: the headings are the kept tags in document order, none reordered or
\* dropped as a duplicate, and the outline's lines follow that order.
C7_OrderPreserved ==
    LET kept(i) ==
            /\ html_content[i].name \in HeadingTagNames
            /\ Strip(html_content[i].text) # <<>>
            /\ ~Contains(Strip(html_content[i].text), EditMarker)
        K == {i \in DOMAIN html_content : kept(i)}
        nth(k) == CHOOSE i \in K : Cardinality({j \in K : j <= i}) = k
    IN  /\ pc \in {"extracted", "rendered", "done"} =>
              /\ Len(headings) = Cardinality(K)
              /\ \A k \in DOMAIN headings :
                    headings[k] = <<DigitValue(html_content[nth(k)].name[2]),
                                    Strip(html_content[nth(k)].text)>>
        /\ pc \in {"rendered", "done"} =>
              /\ Len(markdown_lines) = Len(headings) + 1
              /\ \A k \in DOMAIN headings :
                    markdown_lines[k + 1] =
                        Repeat("#", headings[k][1]) \o <<" ">> \o headings[k][2]
              /\ outline = Join(markdown_lines, <<"\n", "\n">>)

\* C7 witness: two kept tags with the same level and text, both in the result
\* and both in the outline.
C7_Witness ==
    /\ pc = "rendered"
    /\ Len(html_content) = 2
    /\ Len(headings) = 2
    /\ headings[1] = headings[2]

\* C10: every heading returned has a level in 1..6 that is the numeric suffix
\* of its tag, and a text that is non-empty, trimmed and free of "[edit]";
\* a heading tag with empty or whitespace-only content gives no heading.
C10_HeadingInvariant ==
    pc = "extracted" =>
        /\ \A k \in DOMAIN headings :
              LET level == headings[k][1]
                  text == headings[k][2]
              IN  /\ level \in 1..6
                  /\ text # <<>>
                  /\ text[1] \notin Whitespace
                  /\ text[Len(text)] \notin Whitespace
                  /\ ~Contains(text, EditMarker)
                  /\ \E i \in DOMAIN html_content :
                        /\ html_content[i].name = <<"h", DigitChars[level + 1]>>
                        /\ Strip(html_content[i].text) = text
        /\ Len(headings) <=
               Cardinality({i \in DOMAIN html_content :
                   /\ html_content[i].name \in HeadingTagNames
                   /\ \E j \in DOMAIN html_content[i].text :
                         html_content[i].text[j] \notin Whitespace})

\* C10 witness: a page with a whitespace-only heading tag and a heading tag
\* whose text is trimmed, of which only the second gives a heading.
C10_Witness ==
    /\ pc = "extracted"
    /\ Len(html_content) = 2
    /\ html_content[1] = Tag(<<"h", "4">>, <<" ">>)
    /\ html_content[2].text = <<" ", "B", "\n">>
    /\ headings = <<<<6, <<"B">>>>>>

----------------------------------------------------------------------------
(* Properties of the handler, checked under Spec.                          *)

\* C4: every failure inside the try block ends in a plain-text body with
\* status 200; no exception leaves the handler.
C4_FailuresBecomePlainText ==
    /\ pc \in {"start", "fetched", "extracted", "rendered", "except", "done"}
    /\ \A k \in DOMAIN responses : responses[k].status = 200
    /\ pc = "except" => ENABLED (ExceptHTTPError \/ ExceptException)
    /\ (pc = "done" /\ exc.type # "none") =>
           /\ Len(responses) = 1
           /\ StartsWith(responses[1].body, <<"E", "r", "r", "o", "r">>)

\* C4 witness: a transport failure has been answered.
C4_Witness ==
    /\ pc = "done"
    /\ exc.type = "ConnectionError"
    /\ responses[1].status = 200

\* C5: on an upstream 404 the body is "Error: Wikipedia page not found for
\* '<c>'" with the country as received.
C5_NotFoundVerbatim ==
    (pc = "done" /\ status_code = 404) =>
        /\ Len(responses) = 1
        /\ responses[1].body = NotFoundPrefix \o country \o <<"'">>
        /\ country = Atlantis =>
               responses[1].body =
                   <<"E", "r", "r", "o", "r", ":", " ", "W", "i", "k", "i",
                     "p", "e", "d", "i", "a", " ", "p", "a", "g", "e", " ",
                     "n", "o", "t", " ", "f", "o", "u", "n", "d", " ", "f",
                     "o", "r", " ", "'", "A", "t", "l", "a", "n", "t", "i",
                     "s", "'">>

\* C5 witness: a 404 answered for a country that formatting would change.
C5_Witness ==
    /\ pc = "done"
    /\ status_code = 404
    /\ country = UnitedStatesPadded

\* C6 as stated: every upstream status that is neither a success (2xx) nor
\* 404 gives a body starting with "Error fetching Wikipedia page:".
C6_AnyNonSuccessStatus ==
    (/\ pc = "done"
     /\ status_code # 0
     /\ status_code \notin 200..299
     /\ status_code # 404) =>
        StartsWith(responses[1].body, SubSeq(FetchErrorPrefix, 1, 30))

\* C6 amended: every 4xx or 5xx upstream status other than 404 gives a body
\* starting with "Error fetching Wikipedia page:", which is neither the 404
\* message nor a rendered outline.
C6_ErrorStatusIsFetchError ==
    (/\ pc = "done"
     /\ status_code \in 400..599
     /\ status_code # 404) =>
        /\ Len(responses) = 1
        /\ StartsWith(responses[1].body,
               <<"E", "r", "r", "o", "r", " ", "f", "e", "t", "c", "h", "i",
                 "n", "g", " ", "W", "i", "k", "i", "p", "e", "d", "i", "a",
                 " ", "p", "a", "g", "e", ":">>)
        /\ ~StartsWith(responses[1].body, NotFoundPrefix)
        /\ ~StartsWith(responses[1].body, ContentsLine)
        /\ outline = <<>>

\* C6 witness: an upstream 500 has been answered.
C6_Witness ==
    /\ pc = "done"
    /\ status_code = 500
    /\ Len(responses) = 1

\* C8: one request calls requests.get once; a failed fetch gives one error
\* body, with no second fetch and neither the extractor nor the renderer run.
C8_NoRetries ==
    /\ gets <= 1
    /\ pc # "start" => gets = 1
    /\ Len(responses) <= 1
    /\ pc = "done" => Len(responses) = 1
    /\ exc.type \in {"HTTPError", "ConnectionError"} =>
           /\ trace = <<"fetch">>
           /\ headings = <<>>
           /\ outline = <<>>
           /\ pc \in {"except", "done"}
           /\ pc = "done" =>
                  StartsWith(responses[1].body, <<"E", "r", "r", "o", "r">>)

\* C8 witness: a fetch that failed with an HTTP error has been answered.
C8_Witness ==
    /\ pc = "done"
    /\ exc.type = "HTTPError"
    /\ gets = 1
    /\ Len(responses) = 1

\* C9: the URL is "https://en.wikipedia.org/wiki/" followed by the country
\* trimmed, then with every remaining space replaced by an underscore, then
\* percent-encoded.
C9_UrlConstruction ==
    pc # "start" =>
        LET segment == SubSeq(url, Len(WikiPrefix) + 1, Len(url))
        IN  /\ StartsWith(url, WikiPrefix)
            /\ segment = Quote(Replace(Strip(country), <<" ">>, <<"_">>))
            /\ \A i \in DOMAIN segment : segment[i] \notin Whitespace
            /\ country \in {UnitedStates, UnitedStatesPadded} =>
                   segment = <<"U", "n", "i", "t", "e", "d", "_", "S", "t",
                               "a", "t", "e", "s">>

\* C9 witness: the URL of a country with spaces around and inside it.
C9_Witness ==
    /\ pc # "start"
    /\ country = UnitedStatesPadded
    /\ Len(url) = Len(WikiPrefix) + Len(UnitedStates)

====
